---- MODULE Spec2Model ----
(***************************************************************************)
(* Model of split_mp4_ffmpeg.py: one run of the MP4 splitter, either as a  *)
(* script (the __main__ block) or as a direct call of                      *)
(* split_video_stream_copy.  Durations are integer microseconds (ffprobe   *)
(* prints six fractional digits, and the invocation carries six).         *)
(***************************************************************************)
EXTENDS Integers, Naturals, Sequences, FiniteSets, TLC

(* ------------------------------ bounds -------------------------------- *)
MaxSmallChunks == 5
MaxSmallDurationUs == 12
MaxChunkCount == 2000
MaxPrompts == 2
MaxPartialFiles == 2

(* chunk counts a run of the whole program is given *)
ChunkValues == ((0 - 2)..MaxSmallChunks) \cup {120}
(* durations (microseconds) the probe engine may report in a whole run *)
DurationValues == (0..MaxSmallDurationUs) \cup {10000000, 95500000, 100000000}
(* inputs of the planning steps taken alone *)
PlanChunkValues == 1..MaxChunkCount
PlanDurationValues == {0, 1000, 10000000, 95500000}
ReturnCodes == {0, 1}

PathKinds == {"missing", "mp4", "other", "dir0", "dir1", "dirN"}

VARIABLES
  entry,        \* "main": run as a script; "call": split_video_stream_copy called directly
  pc,           \* position of the single thread
  ffmpegOK,     \* ffmpeg resolvable on PATH
  ffprobeOK,    \* ffprobe resolvable on PATH
  interactive,  \* fewer than two argv entries: values come from input()
  inPath,       \* what the supplied input path refers to
  chunksIsInt,  \* the supplied chunk-count text parses with int()
  chunksVal,    \* its value when it does
  outGiven,     \* an output directory was supplied
  argsRead,     \* read_args has been called
  prompts,      \* number of input() calls made so far
  file_path,    \* what the path handed to split_video_stream_copy refers to
  num_chunks,   \* num_chunks local of split_video_stream_copy
  probeState,   \* "none" | "running" | "exited"
  probeSpawned, \* number of ffprobe processes started
  probeRc,      \* exit code of the ffprobe process
  probeParses,  \* float() accepts the captured ffprobe output
  probeOut,     \* the value that output denotes, microseconds
  duration,     \* parsed duration, microseconds
  dirCreated,   \* out_dir.mkdir was called
  sec_per_chunk,\* value written after -segment_time, microseconds
  digits,       \* width of the %0Nd placeholder
  cmd,          \* the ffmpeg invocation: option |-> value
  segState,     \* "none" | "running" | "exited"
  segSpawned,   \* number of ffmpeg processes started
  returncode,   \* proc.returncode
  firstIndex,   \* index of the first segment file written
  fileCount,    \* number of segment files written
  error,        \* error kind raised or reported, "" if none
  outcome,      \* "running" | "exited" | "returned" | "raised"
  exitStatus    \* process exit status when outcome = "exited"

vars == <<entry, pc, ffmpegOK, ffprobeOK, interactive, inPath, chunksIsInt,
          chunksVal, outGiven, argsRead, prompts, file_path, num_chunks,
          probeState, probeSpawned, probeRc, probeParses, probeOut, duration,
          dirCreated,
          sec_per_chunk, digits, cmd, segState, segSpawned, returncode,
          firstIndex, fileCount, error, outcome, exitStatus>>

inputs == <<entry, ffmpegOK, ffprobeOK, interactive, inPath, chunksIsInt,
            chunksVal, outGiven>>
probeVars == <<probeState, probeSpawned, probeRc, probeParses, probeOut, duration>>
planVars == <<dirCreated, sec_per_chunk, digits, cmd>>
segVars == <<segState, segSpawned, returncode, firstIndex, fileCount>>

(* ------------------------- pure helpers ------------------------------- *)
Max(a, b) == IF a >= b THEN a ELSE b
Min(a, b) == IF a <= b THEN a ELSE b

RECURSIVE CeilLog10From(_, _, _)
CeilLog10From(m, k, p) == IF p >= m THEN k ELSE CeilLog10From(m, k + 1, p * 10)
(* int(math.ceil(math.log10(m))) for m >= 1 *)
CeilLog10(m) == CeilLog10From(m, 0, 1)

NamingDigitsNoFloor(n) == CeilLog10(n + 1)
(* digits = max(2, int(math.ceil(math.log10(num_chunks + 1)))) *)
NamingDigits(n) == Max(2, CeilLog10(n + 1))

RECURSIVE DecimalDigits(_)
(* the decimal numeral of a natural number, most significant digit first *)
DecimalDigits(i) == IF i < 10 THEN <<i>> ELSE Append(DecimalDigits(i \div 10), i % 10)

RECURSIVE Zeros(_)
Zeros(k) == IF k <= 0 THEN <<>> ELSE <<0>> \o Zeros(k - 1)

(* printf "%0<w>d" as the segment muxer expands the template placeholder *)
Render(i, w) == LET ds == DecimalDigits(i) IN Zeros(w - Len(ds)) \o ds

TruncChoices(dus, n) == {dus \div n}
(* f"{duration / num_chunks:.6f}" in microseconds: the nearest multiple of  *)
(* 1e-6; at an exact half the float quotient may fall on either side       *)
RoundChoices(dus, n) ==
  LET lo == dus \div n
      r == dus % n
  IN IF 2 * r < n THEN {lo}
     ELSE IF 2 * r > n THEN {lo + 1}
     ELSE {lo, lo + 1}

NoCmd == [prog |-> "none"]

(* cmd, lines 141-153; output is the placeholder width of output_template *)
BuildCmd(q, w) ==
  [prog |-> "ffmpeg", hide_banner |-> TRUE, y |-> TRUE, i |-> "file_path",
   map |-> "0", c |-> "copy", f |-> "segment", segment_time |-> q,
   reset_timestamps |-> 1, avoid_negative_ts |-> "make_zero", output |-> w]

(* ---------------------- the external engines --------------------------- *)
(* number the segment muxer gives the first file: its -segment_start_number *)
(* option, 0 when the invocation does not carry one                        *)
StartNumber(c) ==
  IF "segment_start_number" \in DOMAIN c THEN c.segment_start_number ELSE 0

(* files an engine cutting at every multiple of q writes for a medium of   *)
(* d microseconds: the segments covering [0, d)                            *)
SegmentCount(d, q) == IF q <= 0 THEN 0 ELSE (d + q - 1) \div q

IsDir(k) == k \in {"dir0", "dir1", "dirN"}

(* --------------------------- the program ------------------------------ *)
Init ==
  /\ entry \in {"main", "call"}
  /\ ffmpegOK \in BOOLEAN
  /\ ffprobeOK \in BOOLEAN
  /\ inPath \in PathKinds
  /\ outGiven \in BOOLEAN
  /\ IF entry = "main"
       THEN /\ interactive \in BOOLEAN
            /\ chunksIsInt \in BOOLEAN
            /\ chunksVal \in (IF chunksIsInt THEN ChunkValues ELSE {0})
            /\ pc = "check_deps"
            /\ file_path = "unset"
            /\ num_chunks = 0
       ELSE /\ interactive = FALSE
            /\ chunksIsInt = TRUE
            /\ chunksVal \in ChunkValues
            /\ pc = "split"
            /\ file_path = inPath
            /\ num_chunks = chunksVal
  /\ argsRead = FALSE
  /\ prompts = 0
  /\ probeState = "none" /\ probeSpawned = 0 /\ probeRc = 0
  /\ probeParses = FALSE /\ probeOut = 0 /\ duration = 0
  /\ dirCreated = FALSE /\ sec_per_chunk = 0 /\ digits = 0 /\ cmd = NoCmd
  /\ segState = "none" /\ segSpawned = 0 /\ returncode = 0
  /\ firstIndex = 0 /\ fileCount = 0
  /\ error = "" /\ outcome = "running" /\ exitStatus = 0

(* an exception leaves the function; __main__ catches it, prints it and    *)
(* calls sys.exit(2) (lines 193-195); a direct caller sees it raised       *)
Raise(kind) ==
  /\ error' = kind
  /\ pc' = "done"
  /\ IF entry = "main"
       THEN outcome' = "exited" /\ exitStatus' = 2
       ELSE outcome' = "raised" /\ exitStatus' = exitStatus

DepsMissingBoth == ~ffmpegOK /\ ~ffprobeOK
(* shutil.which("ffmpeg") is None or shutil.which("ffprobe") is None *)
DepsMissing == ~ffmpegOK \/ ~ffprobeOK

(* check_deps, called right after print(USAGE_TEXT) *)
CheckDeps ==
  /\ pc = "check_deps"
  /\ IF DepsMissing
       THEN /\ error' = "MissingDependency"
            /\ outcome' = "exited"
            /\ exitStatus' = 1
            /\ pc' = "done"
       ELSE /\ pc' = "read_args"
            /\ UNCHANGED <<error, outcome, exitStatus>>
  /\ UNCHANGED <<inputs, argsRead, prompts, file_path, num_chunks, probeVars,
                 planVars, segVars>>

(* read_args: argv when it has two entries or more, input() otherwise *)
ReadArgs ==
  /\ pc = "read_args"
  /\ argsRead' = TRUE
  /\ IF chunksIsInt
       THEN /\ num_chunks' = chunksVal
            /\ prompts' = (IF interactive THEN prompts + 3 ELSE prompts)
            /\ pc' = "ensure_video_path"
            /\ UNCHANGED <<error, outcome, exitStatus>>
       ELSE /\ num_chunks' = num_chunks
            /\ prompts' = (IF interactive THEN prompts + 2 ELSE prompts)
            /\ Raise("InvalidChunkText")
  /\ UNCHANGED <<inputs, file_path, probeVars, planVars, segVars>>

(* ensure_video_path, with pick_mp4_from_dir up to its prompt loop *)
EnsureVideoPath ==
  /\ pc = "ensure_video_path"
  /\ IF inPath = "dir0" \/ inPath = "missing"
       THEN Raise("InputNotFound") /\ file_path' = file_path
     ELSE IF inPath = "other"
       THEN Raise("InputNotSupportedType") /\ file_path' = file_path
     ELSE IF inPath = "dirN"
       THEN /\ pc' = "pick_prompt"
            /\ UNCHANGED <<file_path, error, outcome, exitStatus>>
     ELSE /\ file_path' = "mp4"
          /\ pc' = "split"
          /\ UNCHANGED <<error, outcome, exitStatus>>
  /\ UNCHANGED <<inputs, argsRead, prompts, num_chunks, probeVars, planVars,
                 segVars>>

(* one turn of the while True loop of pick_mp4_from_dir, valid selection *)
PickValid ==
  /\ pc = "pick_prompt"
  /\ prompts' = prompts + 1
  /\ file_path' = "mp4"
  /\ pc' = "split"
  /\ UNCHANGED <<inputs, argsRead, num_chunks, probeVars, planVars, segVars,
                 error, outcome, exitStatus>>

(* one turn of that loop, invalid selection: asks again *)
PickInvalid ==
  /\ pc = "pick_prompt"
  /\ prompts < 3 + MaxPrompts
  /\ prompts' = prompts + 1
  /\ UNCHANGED <<inputs, pc, argsRead, file_path, num_chunks, probeVars,
                 planVars, segVars, error, outcome, exitStatus>>

NegativeChunkCount(n) == n < 0
(* if num_chunks <= 0 *)
InvalidChunkCount(n) == n <= 0

NeverMissing(k) == FALSE
(* not file_path.exists() *)
FileMissing(k) == k = "missing"

(* split_video_stream_copy, lines 125-128 *)
SplitValidate ==
  /\ pc = "split"
  /\ IF InvalidChunkCount(num_chunks) THEN Raise("InvalidChunkCount")
     ELSE IF FileMissing(file_path) THEN Raise("InputNotFound")
     ELSE pc' = "probe" /\ UNCHANGED <<error, outcome, exitStatus>>
  /\ UNCHANGED <<inputs, argsRead, prompts, file_path, num_chunks, probeVars,
                 planVars, segVars>>

(* ffprobe_duration, line 86 up to the start of the child process *)
SpawnProbe ==
  /\ pc = "probe"
  /\ IF ffprobeOK
       THEN /\ probeSpawned' = probeSpawned + 1
            /\ probeState' = "running"
            /\ pc' = "probe_wait"
            /\ UNCHANGED <<error, outcome, exitStatus>>
       ELSE /\ Raise("ProbeFailure")
            /\ UNCHANGED <<probeSpawned, probeState>>
  /\ UNCHANGED <<inputs, argsRead, prompts, file_path, num_chunks, probeRc,
                 probeParses, probeOut, duration, planVars, segVars>>

(* the ffprobe process terminates *)
ProbeExits ==
  /\ probeState = "running"
  /\ probeState' = "exited"
  /\ \E rc \in ReturnCodes, parses \in BOOLEAN, d \in DurationValues :
       /\ IsDir(file_path) => rc # 0
       /\ (rc # 0 \/ ~parses) => d = 0
       /\ probeRc' = rc
       /\ probeParses' = parses
       /\ probeOut' = d
  /\ UNCHANGED <<inputs, pc, argsRead, prompts, file_path, num_chunks,
                 probeSpawned, duration, planVars, segVars, error, outcome,
                 exitStatus>>

ProbeRaisesOnText(rc, parses) == ~parses
(* check_output raises on a non-zero exit, float() on unparsable text *)
ProbeRaises(rc, parses) == rc # 0 \/ ~parses

(* check_output returns only once the child has terminated *)
ProbeDone == probeState = "exited"

(* ffprobe_duration, lines 86-87 after the child has terminated *)
ProbeReturn ==
  /\ pc = "probe_wait"
  /\ ProbeDone
  /\ IF ProbeRaises(probeRc, probeParses)
       THEN Raise("ProbeFailure") /\ duration' = duration
       ELSE /\ duration' = probeOut
            /\ pc' = "plan"
            /\ UNCHANGED <<error, outcome, exitStatus>>
  /\ UNCHANGED <<inputs, argsRead, prompts, file_path, num_chunks, probeState,
                 probeSpawned, probeRc, probeParses, probeOut, planVars,
                 segVars>>

(* lines 131-135: the quotient is kept exact until it is formatted *)
Plan ==
  /\ pc = "plan"
  /\ dirCreated' = TRUE
  /\ pc' = "build"
  /\ UNCHANGED <<inputs, argsRead, prompts, file_path, num_chunks, probeVars,
                 sec_per_chunk, digits, cmd, segVars, error, outcome,
                 exitStatus>>

(* lines 137-153 *)
Build ==
  /\ pc = "build"
  /\ digits' = NamingDigits(num_chunks)
  /\ \E q \in RoundChoices(duration, num_chunks) :
       /\ sec_per_chunk' = q
       /\ cmd' = BuildCmd(q, digits')
  /\ pc' = "popen"
  /\ UNCHANGED <<inputs, argsRead, prompts, file_path, num_chunks, probeVars,
                 dirCreated, segVars, error, outcome, exitStatus>>

(* proc = subprocess.Popen(cmd) *)
Popen ==
  /\ pc = "popen"
  /\ IF ffmpegOK
       THEN /\ segSpawned' = segSpawned + 1
            /\ segState' = "running"
            /\ pc' = "wait"
            /\ UNCHANGED <<error, outcome, exitStatus>>
       ELSE /\ Raise("EngineInvocationFailure")
            /\ UNCHANGED <<segSpawned, segState>>
  /\ UNCHANGED <<inputs, argsRead, prompts, file_path, num_chunks, probeVars,
                 planVars, returncode, firstIndex, fileCount>>

(* the ffmpeg process terminates; exit 0 means it wrote every segment, a   *)
(* failure leaves the files written so far; a segment time that is not     *)
(* positive is rejected                                                    *)
SegmentExits ==
  /\ segState = "running"
  /\ segState' = "exited"
  /\ firstIndex' = StartNumber(cmd)
  /\ LET all == SegmentCount(duration, cmd.segment_time) IN
       \E rc \in ReturnCodes :
         /\ rc = 0 => cmd.segment_time > 0
         /\ returncode' = rc
         /\ IF rc = 0 THEN fileCount' = all
            ELSE fileCount' \in 0..Min(all, MaxPartialFiles)
  /\ UNCHANGED <<inputs, pc, argsRead, prompts, file_path, num_chunks,
                 probeVars, planVars, segSpawned, error, outcome, exitStatus>>

WaitAnyTime == TRUE
(* proc.wait() returns once the child has terminated *)
WaitReturns == segState = "exited"

(* proc.wait() *)
Wait ==
  /\ pc = "wait"
  /\ WaitReturns
  /\ pc' = "report"
  /\ UNCHANGED <<inputs, argsRead, prompts, file_path, num_chunks, probeVars,
                 planVars, segVars, error, outcome, exitStatus>>

(* lines 165-168, the return of split_video_stream_copy and, as a script,  *)
(* the end of the __main__ block                                           *)
Report ==
  /\ pc = "report"
  /\ error' = (IF returncode = 0 THEN error ELSE "EngineExecutionFailure")
  /\ pc' = "done"
  /\ IF entry = "main"
       THEN outcome' = "exited" /\ exitStatus' = 0
       ELSE outcome' = "returned" /\ exitStatus' = exitStatus
  /\ UNCHANGED <<inputs, argsRead, prompts, file_path, num_chunks, probeVars,
                 planVars, segVars>>

Next ==
  \/ CheckDeps
  \/ ReadArgs
  \/ EnsureVideoPath
  \/ PickValid
  \/ PickInvalid
  \/ SplitValidate
  \/ SpawnProbe
  \/ ProbeExits
  \/ ProbeReturn
  \/ Plan
  \/ Build
  \/ Popen
  \/ SegmentExits
  \/ Wait
  \/ Report

Spec == Init /\ [][Next]_vars

(* the planning steps alone, over every chunk count up to MaxChunkCount *)
InitPlan ==
  /\ entry = "call"
  /\ ffmpegOK = TRUE /\ ffprobeOK = TRUE
  /\ interactive = FALSE
  /\ inPath = "mp4" /\ file_path = "mp4"
  /\ chunksIsInt = TRUE
  /\ chunksVal \in PlanChunkValues
  /\ num_chunks = chunksVal
  /\ outGiven = FALSE
  /\ argsRead = FALSE /\ prompts = 0
  /\ probeState = "exited" /\ probeSpawned = 1 /\ probeRc = 0
  /\ probeParses = TRUE
  /\ probeOut \in PlanDurationValues
  /\ duration = probeOut
  /\ pc = "plan"
  /\ dirCreated = FALSE /\ sec_per_chunk = 0 /\ digits = 0 /\ cmd = NoCmd
  /\ segState = "none" /\ segSpawned = 0 /\ returncode = 0
  /\ firstIndex = 0 /\ fileCount = 0
  /\ error = "" /\ outcome = "running" /\ exitStatus = 0

NextPlan ==
  \/ Plan
  \/ Build

SpecPlan == InitPlan /\ [][NextPlan]_vars

(* ----------------------------- properties ----------------------------- *)
Abs(x) == IF x < 0 THEN 0 - x ELSE x

(* split_video_stream_copy has been entered: always in a direct call, in a *)
(* script run once ensure_video_path has returned a path                   *)
SplitEntered == entry = "call" \/ file_path # "unset"

(* names (index parts) of the files on disk after the engine has exited *)
OutputNames ==
  {Render(i, cmd.output) : i \in firstIndex..(firstIndex + fileCount - 1)}

(* C1: with a chunk count that is zero or negative, no probe process and   *)
(* no segment process is ever spawned, no output directory is created, and *)
(* split_video_stream_copy, once entered, ends with InvalidChunkCount.      *)
C1_InvalidChunkCountBeforeAnyEffect ==
  (chunksIsInt /\ chunksVal <= 0) =>
    /\ probeSpawned = 0 /\ probeState = "none"
    /\ segSpawned = 0 /\ segState = "none"
    /\ ~dirCreated
    /\ (SplitEntered /\ pc # "split") =>
         (pc = "done" /\ error = "InvalidChunkCount" /\ outcome # "returned")

C1_Witness ==
  /\ chunksVal <= 0 /\ SplitEntered /\ pc = "done"
  /\ error = "InvalidChunkCount"

(* C2: when the segment engine exits non-zero the run ends with a non-zero *)
(* process exit status, and a run that went as far as the segment engine   *)
(* ends with status 0 only if the engine's exit code was zero.              *)
C2_EngineFailureGivesNonZeroExit ==
  (entry = "main" /\ pc = "done" /\ segState = "exited") =>
    /\ outcome = "exited"
    /\ returncode # 0 => exitStatus # 0
    /\ exitStatus = 0 => returncode = 0

(* C3: after a successful run the files on disk are the zero-padded        *)
(* indices 1 .. chunkCount: the first has index 1, the last chunkCount.     *)
C3_FilesNumberedFromOne ==
  (pc = "done" /\ segState = "exited" /\ returncode = 0) =>
    /\ firstIndex = 1
    /\ OutputNames = {Render(i, digits) : i \in 1..num_chunks}

(* C4: a segment process is spawned only after one probe process exited    *)
(* with code 0 and parsable output; a probe that exited non-zero or with   *)
(* unparsable output ends the run with ProbeFailure and no segment process. *)
C4_ProbeFailureStopsTheRun ==
  /\ segSpawned > 0 =>
       (probeSpawned = 1 /\ probeState = "exited" /\ probeRc = 0 /\ probeParses)
  /\ (probeState = "exited" /\ (probeRc # 0 \/ ~probeParses)) =>
       /\ segSpawned = 0 /\ segState = "none"
       /\ pc # "probe_wait" =>
            (pc = "done" /\ error = "ProbeFailure" /\ outcome # "returned")

C4_Witness ==
  /\ probeState = "exited" /\ probeRc = 0 /\ ~probeParses
  /\ pc = "done" /\ error = "ProbeFailure"

(* the checks that come before the existence check all pass *)
EarlierChecksPass ==
  IF entry = "main" THEN ffmpegOK /\ ffprobeOK /\ chunksIsInt
  ELSE chunksVal > 0

(* C5 as stated: with a missing input file (and both engines installed)    *)
(* the run ends with InputNotFound and no process is spawned.               *)
C5_MissingInputAlwaysInputNotFound ==
  (inPath = "missing" /\ ffmpegOK /\ ffprobeOK) =>
    /\ probeSpawned = 0 /\ segSpawned = 0
    /\ pc = "done" => error = "InputNotFound"

(* C5 amended: with a missing input file no process of either kind is ever *)
(* spawned; the run ends with InputNotFound when no earlier check fails    *)
(* first (dependency check and integer parse of the chunk count in a       *)
(* script run, chunkCount <= 0 in split_video_stream_copy).                 *)
C5_MissingInputNoProbe ==
  inPath = "missing" =>
    /\ probeSpawned = 0 /\ probeState = "none"
    /\ segSpawned = 0 /\ segState = "none"
    /\ (pc = "done" /\ EarlierChecksPass) =>
         (error = "InputNotFound" /\ outcome # "returned")

C5_Witness ==
  /\ entry = "call" /\ inPath = "missing" /\ chunksVal > 0
  /\ pc = "done" /\ error = "InputNotFound" /\ outcome = "raised"

(* C6: the placeholder width is 2 for chunk counts 1..99, 3 for 100..999,  *)
(* never below 2, and every index 1..chunkCount renders in exactly that    *)
(* many characters.                                                        *)
C6_NamingDigits ==
  pc = "popen" =>
    /\ (num_chunks >= 1 /\ num_chunks <= 99) => digits = 2
    /\ (num_chunks >= 100 /\ num_chunks <= 999) => digits = 3
    /\ digits >= 2
    /\ cmd.output = digits
    /\ \A i \in 1..num_chunks : Len(Render(i, cmd.output)) = digits

C6_Witness == pc = "popen" /\ num_chunks = 999 /\ digits = 3

(* C7 as stated: for every positive chunk count the rounding error of the  *)
(* passed segment duration, summed over the chunks, is under 1000 us.       *)
C7_CumulativeErrorUnderMillisecond ==
  (pc = "popen" /\ num_chunks > 0) =>
    Abs(num_chunks * cmd.segment_time - duration) < 1000

(* C7 amended: for every chunk count from 1 to 1999 the rounding error of  *)
(* the passed segment duration, summed over the chunks, is under 1000 us.   *)
C7_CumulativeErrorUnderMillisecondBelow2000 ==
  (pc = "popen" /\ num_chunks > 0 /\ num_chunks <= 1999) =>
    Abs(num_chunks * cmd.segment_time - duration) < 1000

C7_Witness ==
  /\ pc = "popen" /\ num_chunks = 1999 /\ duration = 1000
  /\ cmd.segment_time = 1

(* C8: in a script run with ffmpeg or ffprobe missing, no argument is read,*)
(* nothing is prompted, the input is not validated, no process is spawned, *)
(* no directory is created, and the run ends with a non-zero exit status.   *)
C8_MissingDependencyIsPreflight ==
  (entry = "main" /\ (~ffmpegOK \/ ~ffprobeOK)) =>
    /\ ~argsRead /\ prompts = 0
    /\ file_path = "unset"
    /\ probeSpawned = 0 /\ segSpawned = 0
    /\ ~dirCreated
    /\ pc \in {"check_deps", "done"}
    /\ pc = "done" =>
         (outcome = "exited" /\ exitStatus # 0 /\ error = "MissingDependency")

C8_Witness ==
  /\ entry = "main" /\ ffmpegOK /\ ~ffprobeOK
  /\ pc = "done" /\ exitStatus = 1

(* C9: at most one probe and one segment process per run; the probe has    *)
(* exited before the segment process starts; no terminal status while a    *)
(* child is running; once a failure is recorded no process is spawned.      *)
C9_OneShotBlocking ==
  /\ [](/\ probeSpawned <= 1 /\ segSpawned <= 1
        /\ segState # "none" => probeState = "exited"
        /\ pc \in {"report", "done"} =>
             (probeState # "running" /\ segState # "running")
        /\ pc \in {"plan", "build", "popen"} => probeState = "exited")
  /\ [][error # "" =>
          (probeSpawned' = probeSpawned /\ segSpawned' = segSpawned
           /\ pc' = "done")]_vars

C9_Witness ==
  /\ pc = "done" /\ probeSpawned = 1 /\ segSpawned = 1
  /\ probeState = "exited" /\ segState = "exited"

(* C10: with an engine that cuts at every multiple of the passed segment   *)
(* duration, a successful run on a medium of positive duration writes      *)
(* exactly chunkCount files.                                               *)
C10_ExactlyChunkCountFiles ==
  (pc = "done" /\ segState = "exited" /\ returncode = 0 /\ duration > 0) =>
    fileCount = num_chunks

====
